---------------------------- MODULE Spec2Model ----------------------------
(***************************************************************************)
(* TextWarden GrammarEngine: the finding post-processing pipeline of       *)
(* analyzer.rs (suggestion flattening, sentence-start capitalization,      *)
(* deduplication) and language_filter.rs (sentence segmentation and the    *)
(* document/segment level language filter).                                *)
(*                                                                         *)
(* A text is a sequence of chars.  An ASCII char is the one-character      *)
(* string; any other char is named by its code point ("U+00E9" is e-acute, *)
(* "U+2022" the bullet).  Byte offsets follow from each char's UTF-8 width.*)
(***************************************************************************)
EXTENDS Integers, Sequences, FiniteSets, TLC

VARIABLES
    pc,             \* the operation that produced the current state
    text,           \* &str: the analysed text
    errors,         \* Vec<GrammarError>: the findings handed to the operation
    result,         \* the operation's returned Vec<GrammarError>
    result2,        \* deduplicate_overlapping_errors applied to result
    sentences,      \* Vec<(usize, usize)> returned by split_into_sentences
    enabled,        \* enable_language_detection
    excluded_names, \* excluded_languages: Vec<String> as the caller gave it
    detect,         \* whichlang's answers during the call: slice -> Lang
    path,           \* the return of filter_errors that was taken
    non_english,    \* the return of is_document_primarily_non_english
    skip,           \* the return of should_skip_harper_analysis
    toggles,        \* the six enable_* dictionary arguments of analyze_text
    wordlists,      \* the lines of the wordlists/*.txt files, per category
    cap,            \* enable_sentence_start_capitalization
    lints,          \* Vec<Lint> returned by linter.lint(&document)
    dictionary,     \* the MergedDictionary built by analyze_text
    linter_dictionary,   \* the dictionary LintGroup::new_curated received
    document_dictionary, \* the dictionary Document::new_plain_english received
    converted,      \* analyze_text's `errors` after the map over the lints
    deduped,        \* analyze_text's `errors` after deduplication
    complete_sentences, \* Vec<SentenceSpan> of extract_complete_sentences
    ends_complete   \* the return of ends_with_complete_sentence

dedupVars  == <<errors, result, result2>>
filterVars == <<enabled, excluded_names, detect, path, non_english, skip>>
analyzeVars == <<toggles, wordlists, cap, lints, dictionary, linter_dictionary,
                 document_dictionary, converted, deduped>>
detectorVars == <<complete_sentences, ends_complete>>
vars == <<pc, text, errors, result, result2, sentences,
          enabled, excluded_names, detect, path, non_english, skip,
          toggles, wordlists, cap, lints, dictionary, linter_dictionary,
          document_dictionary, converted, deduped,
          complete_sentences, ends_complete>>

(***************************************************************************)
(* Bounds of the model.                                                    *)
(***************************************************************************)
MaxErrors == 2
MaxTextLen == 4
MaxParagraphLen == 2
MaxPieces == 5
MaxFilterPieces == 2
MaxFilterErrors == 2

(***************************************************************************)
(* Generic helpers: Vec and slice operations of the Rust standard library. *)
(***************************************************************************)
Range(s) == {s[i] : i \in DOMAIN s}

BoundedSeq(S, n) == UNION {[1..k -> S] : k \in 0..n}

\* slice::sort_by / sort_by_key are stable: elements with equal keys keep
\* their relative order.  keys[i] is the integer key of xs[i].
StableSortByKey(xs, keys) ==
    LET n == Len(xs)
        pos(i) == Cardinality({j \in 1..n : keys[j] < keys[i]})
                  + Cardinality({j \in 1..i : keys[j] = keys[i]})
    IN  [p \in 1..n |-> xs[CHOOSE i \in 1..n : pos(i) = p]]

\* The sub-sequence of the xs[i] with keep[i], order preserved
\* (Iterator::filter(..).collect()).
FilterSeq(xs, keep) ==
    LET idx == {i \in 1..Len(xs) : keep[i]}
    IN  [p \in 1..Cardinality(idx) |->
            xs[CHOOSE i \in idx : Cardinality({j \in idx : j <= i}) = p]]

\* Every sequence that lists the elements of the finite set S exactly once.
Orderings(S) ==
    {f \in [1..Cardinality(S) -> S] : \A i, j \in 1..Cardinality(S) : f[i] = f[j] => i = j}

(***************************************************************************)
(* analyzer.rs: GrammarError, ErrorSeverity.                               *)
(***************************************************************************)
ErrorSeverity == {"Error", "Warning", "Info"}

GrammarError(start, end, message, severity, category, lint_id, suggestions) ==
    [start |-> start, end |-> end, message |-> message, severity |-> severity,
     category |-> category, lint_id |-> lint_id, suggestions |-> suggestions]

\* str::to_uppercase on the category strings of the model.
to_uppercase(cat) ==
    CASE cat \in {"Grammar", "GRAMMAR", "grammar"}             -> "GRAMMAR"
      [] cat \in {"Spelling", "SPELLING", "spelling"}          -> "SPELLING"
      [] cat \in {"Punctuation", "PUNCTUATION", "punctuation"} -> "PUNCTUATION"
      [] cat \in {"Style", "STYLE", "style"}                   -> "STYLE"
      [] cat \in {"Formatting", "FORMATTING", "formatting"}    -> "FORMATTING"
      [] cat \in {"Typo", "TYPO", "typo"}                      -> "TYPO"
      [] cat \in {"Miscellaneous", "MISCELLANEOUS"}            -> "MISCELLANEOUS"
      [] cat \in {"WordChoice", "WORDCHOICE"}                  -> "WORDCHOICE"
      [] OTHER                                                 -> cat

\* Faulty variant: the priorities of SPELLING and TYPO exchanged.
category_priority_swapped(cat) ==
    CASE to_uppercase(cat) = "GRAMMAR"     -> 10
      [] to_uppercase(cat) = "SPELLING"    -> 5
      [] to_uppercase(cat) = "PUNCTUATION" -> 8
      [] to_uppercase(cat) = "STYLE"       -> 7
      [] to_uppercase(cat) = "FORMATTING"  -> 6
      [] to_uppercase(cat) = "TYPO"        -> 9
      [] OTHER                             -> 1

\* Priority order for categories (higher = better to keep).
category_priority(cat) ==
    CASE to_uppercase(cat) = "GRAMMAR"     -> 10
      [] to_uppercase(cat) = "SPELLING"    -> 9
      [] to_uppercase(cat) = "PUNCTUATION" -> 8
      [] to_uppercase(cat) = "STYLE"       -> 7
      [] to_uppercase(cat) = "FORMATTING"  -> 6
      [] to_uppercase(cat) = "TYPO"        -> 5
      [] OTHER                             -> 1

severity_ord(s) ==
    CASE s = "Error"   -> 3
      [] s = "Warning" -> 2
      [] s = "Info"    -> 1

\* Faulty variant: findings are grouped by their start alone.
SpanStartOnly(e) == <<e.start, e.start>>

Span(e) == <<e.start, e.end>>

\* errors.sort_by(|a, b| a.start.cmp(&b.start).then_with(|| b.end.cmp(&a.end)))
\* The key orders by start ascending and, within a start, by end descending.
SpanSortKey(xs, e) ==
    LET top == 1 + (CHOOSE m \in {x.end : x \in Range(xs)} :
                        \A x \in Range(xs) : x.end <= m)
    IN  e.start * (top + 1) + (top - e.end)

\* group.sort_by(category priority descending, then severity descending)
GroupSortKey(e) == 0 - (category_priority(e.category) * 4 + severity_ord(e.severity))

\* One HashMap entry: the findings of a span, pushed in sorted-vector order.
SpanGroup(sorted, span) == FilterSeq(sorted, [i \in DOMAIN sorted |-> Span(sorted[i]) = span])

\* Faulty variant: the survivor takes over the severity of the group's last
\* finding.
BestOfGroupMerged(group) ==
    IF Len(group) = 1 THEN group[1]
    ELSE [StableSortByKey(group, [i \in DOMAIN group |-> GroupSortKey(group[i])])[1]
             EXCEPT !.severity = group[Len(group)].severity]

\* The closure of `.map(|mut group| ...)`: the survivor of a group.
BestOfGroup(group) ==
    IF Len(group) = 1 THEN group[1]
    ELSE StableSortByKey(group, [i \in DOMAIN group |-> GroupSortKey(group[i])])[1]

\* Faulty variant: the survivors are returned in the map's iteration order,
\* without the final sort.
DedupGroupsUnsorted(xs, iter_order) ==
    LET sorted == StableSortByKey(xs, [i \in DOMAIN xs |-> SpanSortKey(xs, xs[i])])
    IN  [k \in 1..Len(iter_order) |-> BestOfGroup(SpanGroup(sorted, iter_order[k]))]

\* The body of deduplicate_overlapping_errors after the early return: sort,
\* group by span, pick the best of every group, sort by start.
\* into_values() yields the groups in the HashMap's iteration order, which
\* the standard library leaves unspecified (the hasher is seeded per map):
\* `iter_order` is that order, a listing of the distinct spans.
DedupGroups(xs, iter_order) ==
    LET sorted == StableSortByKey(xs, [i \in DOMAIN xs |-> SpanSortKey(xs, xs[i])])
        picked == [k \in 1..Len(iter_order) |->
                       BestOfGroup(SpanGroup(sorted, iter_order[k]))]
    IN  StableSortByKey(picked, [i \in DOMAIN picked |-> picked[i].start])

\* Faulty variant: the early return taken for two findings as well.
DedupEarlyReturnTwo(xs, iter_order) ==
    IF Len(xs) <= 2 THEN xs ELSE DedupGroups(xs, iter_order)

deduplicate_overlapping_errors(xs, iter_order) ==
    IF Len(xs) <= 1 THEN xs ELSE DedupGroups(xs, iter_order)

SpanKeys(xs) == {Span(e) : e \in Range(xs)}

(***************************************************************************)
(* Characters and strings.  A str is a sequence of chars; its length in    *)
(* bytes and the byte offset of each char follow from char::len_utf8.      *)
(***************************************************************************)
len_utf8(ch) ==
    CASE ch \in {"U+00E9", "U+00C9", "U+00DF"} -> 2
      [] ch \in {"U+2022", "U+25E6", "U+25AA", "U+25B8", "U+25BA", "U+2023",
                 "U+2043", "U+2013", "U+2014", "U+201C", "U+201D", "U+2018",
                 "U+2019", "U+2026", "U+3002", "U+FF01", "U+FF1F"} -> 3
      [] OTHER -> 1

is_whitespace(ch) == ch \in {" ", "\t", "\n", "\r"}

AsciiDigits == {"0", "1", "2", "3", "4", "5", "6", "7", "8", "9"}

AsciiLower ==
    {
     "a", "b", "c", "d", "e", "f", "g", "h", "i", "j", "k", "l", "m",
     "n", "o", "p", "q", "r", "s", "t", "u", "v", "w", "x", "y", "z"}

AsciiUpper ==
    {
     "A", "B", "C", "D", "E", "F", "G", "H", "I", "J", "K", "L", "M",
     "N", "O", "P", "Q", "R", "S", "T", "U", "V", "W", "X", "Y", "Z"}

is_ascii_digit(ch) == ch \in AsciiDigits

is_ascii_alphabetic(ch) == ch \in AsciiLower \cup AsciiUpper

\* char::is_uppercase on the chars of the model.
is_uppercase(ch) == ch \in AsciiUpper \cup {"U+00C9"}

\* str::len: the length in bytes.
RECURSIVE str_len(_)
str_len(s) == IF s = <<>> THEN 0 ELSE len_utf8(Head(s)) + str_len(Tail(s))

\* str::char_indices: every char with the byte offset it starts at.
RECURSIVE CharIndicesFrom(_, _)
CharIndicesFrom(s, off) ==
    IF s = <<>> THEN <<>>
    ELSE <<<<off, Head(s)>>>> \o CharIndicesFrom(Tail(s), off + len_utf8(Head(s)))

char_indices(s) == CharIndicesFrom(s, 0)

\* The number of chars of s that start before byte offset off.
RECURSIVE CharsBefore(_, _)
CharsBefore(s, off) ==
    IF s = <<>> \/ off <= 0 THEN 0
    ELSE 1 + CharsBefore(Tail(s), off - len_utf8(Head(s)))

\* &s[from..to] for byte offsets on char boundaries: the chars that start in
\* [from, to).
ByteSlice(s, from, to) == SubSeq(s, CharsBefore(s, from) + 1, CharsBefore(s, to))

\* str::trim_start: leading whitespace removed.
RECURSIVE trim_start(_)
trim_start(s) ==
    IF s # <<>> /\ is_whitespace(Head(s)) THEN trim_start(Tail(s)) ELSE s

\* str::trim_end_matches(set): trailing chars of the set removed.
RECURSIVE trim_end_matches(_, _)
trim_end_matches(s, set) ==
    IF s # <<>> /\ s[Len(s)] \in set
    THEN trim_end_matches(SubSeq(s, 1, Len(s) - 1), set)
    ELSE s

\* str::trim_end and str::trim.
trim_end(s) == trim_end_matches(s, {" ", "\t", "\n", "\r"})

trim(s) == trim_start(trim_end(s))

(***************************************************************************)
(* language_filter.rs: the sentence segmenter.                             *)
(***************************************************************************)
\* Faulty variant: only the ASCII bullets are recognized.
is_bullet_char_ascii(ch) == ch \in {"-", "*"}

is_bullet_char(ch) == ch \in {"-", "*", "U+2022", "U+25E6", "U+25AA", "U+25B8", "U+25BA", "U+2023", "U+2043", "U+2013", "U+2014"}

\* Faulty variant: only the start of the text counts as a line start.
is_at_line_start_of_text(s, byte_pos) == byte_pos = 0

is_at_line_start(s, byte_pos) ==
    IF byte_pos = 0 THEN TRUE
    ELSE LET trimmed == trim_end_matches(ByteSlice(s, 0, byte_pos), {" ", "\t"})
         IN  trimmed # <<>> /\ trimmed[Len(trimmed)] \in {"\n", "\r"}

is_sentence_boundary(rest) ==
    IF rest = <<>> THEN TRUE
    ELSE LET t == trim_start(rest)
         IN  IF t = <<>> THEN TRUE
             ELSE LET ch == Head(t)
                  IN  \/ is_uppercase(ch)
                      \/ ch = "\n"
                      \/ ch = "\r"
                      \/ ch \in {"\"", "'", "U+201C", "U+201D", "U+2018", "U+2019"}
                      \/ is_bullet_char(ch)
                      \/ is_ascii_digit(ch)

\* The index of the first char at or after i (0-based) that is neither '\n'
\* nor '\r': the inner `while` of the paragraph-break branch.
RECURSIVE SkipBreaks(_, _)
SkipBreaks(chars, i) ==
    IF i < Len(chars) /\ chars[i + 1][2] \in {"\n", "\r"}
    THEN SkipBreaks(chars, i + 1)
    ELSE i

\* vec.push((from, to)) when the guard holds.
PushIf(guard, st, from, to) ==
    IF guard THEN Append(st.sentences, <<from, to>>) ELSE st.sentences

\* One iteration of the `while i < chars.len()` loop whose char is not the
\* start of a paragraph break: the bullet, list-marker and terminator checks.
ScanChar(s, chars, i, st) ==
    LET n        == Len(chars)
        byte_pos == chars[i + 1][1]
        ch       == chars[i + 1][2]
        bullet   ==
            IF /\ is_bullet_char(ch)
               /\ is_at_line_start(s, byte_pos)
               /\ i + 1 < n
               /\ is_whitespace(chars[i + 2][2])
            THEN [start |-> byte_pos,
                  sentences |-> PushIf(st.start < byte_pos, st, st.start, byte_pos)]
            ELSE st
        marker   ==
            IF /\ is_ascii_digit(ch) \/ is_ascii_alphabetic(ch)
               /\ is_at_line_start(s, byte_pos)
               /\ i + 1 < n
               /\ chars[i + 2][2] \in {".", ")"}
               /\ i + 2 < n
               /\ is_whitespace(chars[i + 3][2])
            THEN [start |-> byte_pos,
                  sentences |-> PushIf(bullet.start < byte_pos, bullet,
                                       bullet.start, byte_pos)]
            ELSE bullet
        is_list_dot ==
            /\ ch = "."
            /\ i > 0
            /\ is_ascii_digit(chars[i][2]) \/ is_ascii_alphabetic(chars[i][2])
            /\ is_at_line_start(s, chars[i][1])
        end      == byte_pos + len_utf8(ch)
        rest     == ByteSlice(s, end, str_len(s))
    IN  IF ch \in {".", "!", "?"} /\ ~is_list_dot
           /\ (rest = <<>> \/ is_sentence_boundary(rest))
        THEN [start |-> end + (str_len(rest) - str_len(trim_start(rest))),
              sentences |-> PushIf(marker.start < end, marker, marker.start, end)]
        ELSE marker

\* The `while i < chars.len()` loop from index i (0-based) with the running
\* segment start and the segments pushed so far.
RECURSIVE SplitScan(_, _, _, _)
SplitScan(s, chars, i, st) ==
    IF i >= Len(chars) THEN st
    ELSE LET byte_pos == chars[i + 1][1]
             ch       == chars[i + 1][2]
         IN  IF /\ ch = "\n"
                /\ i + 1 < Len(chars)
                /\ chars[i + 2][2] \in {"\n", "\r"}
             THEN LET pushed ==
                          PushIf(/\ st.start < byte_pos
                                 /\ trim(ByteSlice(s, st.start, byte_pos)) # <<>>,
                                 st, st.start, byte_pos)
                      j == SkipBreaks(chars, i)
                  IN  SplitScan(s, chars, j,
                                [start |-> IF j < Len(chars) THEN chars[j + 1][1]
                                           ELSE st.start,
                                 sentences |-> pushed])
             ELSE SplitScan(s, chars, i + 1, ScanChar(s, chars, i, st))

\* Faulty variant: the remaining text after the loop is not pushed.
split_into_sentences_no_trailing(s) ==
    LET scanned == SplitScan(s, char_indices(s), 0, [start |-> 0, sentences |-> <<>>])
        final   == scanned.sentences
    IN  IF final = <<>> /\ trim(s) # <<>> THEN <<<<0, str_len(s)>>>> ELSE final

split_into_sentences(s) ==
    LET scanned == SplitScan(s, char_indices(s), 0, [start |-> 0, sentences |-> <<>>])
        final   ==
            PushIf(/\ scanned.start < str_len(s)
                   /\ trim(ByteSlice(s, scanned.start, str_len(s))) # <<>>,
                   scanned, scanned.start, str_len(s))
    IN  IF final = <<>> /\ trim(s) # <<>> THEN <<<<0, str_len(s)>>>> ELSE final

(***************************************************************************)
(* language_filter.rs: the language filter.  whichlang::detect_language is *)
(* a pure classifier outside the repository: within one call its answers   *)
(* are a function `det` from the classified slice to a Lang, and every     *)
(* such function is possible.  The segmenter is pure as well: the          *)
(* operators below take `sents`, the value of split_into_sentences(s) that *)
(* each of them computes in the code, so that it is evaluated once a call. *)
(***************************************************************************)
Lang == {"Eng", "Deu", "Fra"}

\* Option<T>: None is the empty tuple, Some(x) the one-element tuple.
None == <<>>

Some(x) == <<x>>

\* str::to_lowercase on the language names of the model.
to_lowercase(name) ==
    CASE name \in {"german", "German", "GERMAN"} -> "german"
      [] name \in {"deu", "DEU"}                 -> "deu"
      [] name \in {"french", "French"}           -> "french"
      [] name \in {"fra", "FRA"}                 -> "fra"
      [] name \in {"english", "English"}         -> "english"
      [] OTHER                                   -> name

lang_from_string(name) ==
    CASE to_lowercase(name) \in {"french", "fra", "fre"} -> Some("Fra")
      [] to_lowercase(name) \in {"german", "deu", "ger"} -> Some("Deu")
      [] OTHER                                           -> None

\* LanguageFilter::new: the names that parse, in the caller's order.
LanguageFilter(on, names) ==
    LET parsed == [k \in 1..Len(names) |-> lang_from_string(names[k])]
        langs  == FilterSeq(parsed, [k \in DOMAIN parsed |-> parsed[k] # None])
    IN  [enabled |-> on,
         excluded_languages |-> [k \in 1..Len(langs) |-> langs[k][1]]]

\* NON_ENGLISH_THRESHOLD = 0.6 as the fraction ThresholdNum / ThresholdDen.
ThresholdNum == 3
ThresholdDen == 5

\* `ratio > NON_ENGLISH_THRESHOLD` for ratio = num / den computed in f64: for
\* the counts of the model the quotient rounds to the literal 0.6 exactly
\* when num / den = 3 / 5, so the comparison is the exact one.
\* Faulty variant: `>=` for `>`.
ExceedsThresholdOrEqual(ratio) == ratio.num * ThresholdDen >= ThresholdNum * ratio.den

ExceedsThreshold(ratio) == ratio.num * ThresholdDen > ThresholdNum * ratio.den

\* str::get(from..to): None unless from <= to <= len and both ends fall on
\* char boundaries.
is_char_boundary(s, off) ==
    /\ off >= 0
    /\ str_len(SubSeq(s, 1, CharsBefore(s, off))) = off

str_get(s, from, to) ==
    IF from <= to /\ is_char_boundary(s, from) /\ is_char_boundary(s, to)
    THEN Some(ByteSlice(s, from, to))
    ELSE None

calculate_excluded_language_ratio(s, sents, excluded_languages, det) ==
    LET doc_lang == det[s]
        matching == {k \in 1..Len(sents) :
                        LET t == str_get(s, sents[k][1], sents[k][2])
                        IN  t # None /\ det[t[1]] = doc_lang}
    IN  IF doc_lang \notin Range(excluded_languages) THEN None
        ELSE IF sents = <<>>
             THEN Some([lang |-> doc_lang, ratio |-> [num |-> 0, den |-> 1]])
             ELSE Some([lang |-> doc_lang,
                        ratio |-> [num |-> Cardinality(matching), den |-> Len(sents)]])

\* sentence_languages: (start, end, lang) of every segment that slices.
SentenceLanguages(s, sents, det) ==
    LET tagged == [k \in 1..Len(sents) |->
                      LET t == str_get(s, sents[k][1], sents[k][2])
                      IN  IF t = None THEN None
                          ELSE Some(<<sents[k][1], sents[k][2], det[t[1]]>>)]
        kept   == FilterSeq(tagged, [k \in DOMAIN tagged |-> tagged[k] # None])
    IN  [k \in 1..Len(kept) |-> kept[k][1]]

\* The language of the first segment whose range contains the finding's
\* span, or None: `.find(|(start, end, _)| error.start >= *start && ...)`.
FindSentenceLang(error, sentence_languages) ==
    LET hits == {k \in 1..Len(sentence_languages) :
                    /\ error.start >= sentence_languages[k][1]
                    /\ error.end <= sentence_languages[k][2]}
    IN  IF hits = {} THEN None
        ELSE Some(sentence_languages[CHOOSE k \in hits : \A j \in hits : k <= j][3])

\* Faulty variant: a finding that no segment contains is dropped.
KeepUnlessUnmatched(self, error, sentence_languages) ==
    LET sentence_lang == FindSentenceLang(error, sentence_languages)
    IN  IF sentence_lang = None THEN FALSE
        ELSE sentence_lang[1] \notin Range(self.excluded_languages)

\* The closure of the final `.filter(|error| ...)`.
KeepError(self, error, sentence_languages) ==
    LET sentence_lang == FindSentenceLang(error, sentence_languages)
    IN  IF sentence_lang = None THEN TRUE
        ELSE sentence_lang[1] \notin Range(self.excluded_languages)

\* Faulty variant: `&&` for `||`.
IsPassThroughBoth(self) == ~self.enabled /\ self.excluded_languages = <<>>

\* `if !self.enabled || self.excluded_languages.is_empty()`
IsPassThrough(self) == ~self.enabled \/ self.excluded_languages = <<>>

\* Which return of filter_errors is taken.
FilterPath(self, s, sents, det) ==
    IF IsPassThrough(self) THEN "pass_through"
    ELSE LET r == calculate_excluded_language_ratio(s, sents, self.excluded_languages, det)
         IN  IF r # None /\ ExceedsThreshold(r[1].ratio) THEN "bulk_discard"
             ELSE "per_sentence"

\* Faulty variant: the kept findings are collected back to front.
filter_errors_reversed(self, errs, s, sents, det) ==
    LET taken == FilterPath(self, s, sents, det)
        sentence_languages == SentenceLanguages(s, sents, det)
        kept == FilterSeq(errs, [k \in DOMAIN errs |->
                                    KeepError(self, errs[k], sentence_languages)])
    IN  CASE taken = "pass_through" -> errs
          [] taken = "bulk_discard" -> <<>>
          [] OTHER -> [k \in 1..Len(kept) |-> kept[Len(kept) + 1 - k]]

\* LanguageFilter::filter_errors
filter_errors(self, errs, s, sents, det) ==
    LET taken == FilterPath(self, s, sents, det)
        sentence_languages == SentenceLanguages(s, sents, det)
    IN  CASE taken = "pass_through" -> errs
          [] taken = "bulk_discard" -> <<>>
          [] OTHER -> FilterSeq(errs, [k \in DOMAIN errs |->
                                           KeepError(self, errs[k], sentence_languages)])

\* `return ratio > NON_ENGLISH_THRESHOLD` of is_document_primarily_non_english.
\* Faulty variant: `>=` for `>`.
DocExceedsThresholdOrEqual(ratio) ==
    ratio.num * ThresholdDen >= ThresholdNum * ratio.den

DocExceedsThreshold(ratio) == ratio.num * ThresholdDen > ThresholdNum * ratio.den

\* LanguageFilter::is_document_primarily_non_english
is_document_primarily_non_english(self, s, sents, det) ==
    IF ~self.enabled \/ self.excluded_languages = <<>> THEN FALSE
    ELSE LET r == calculate_excluded_language_ratio(s, sents, self.excluded_languages, det)
         IN  IF r # None THEN DocExceedsThreshold(r[1].ratio) ELSE FALSE

\* `Some(ratio > NON_ENGLISH_THRESHOLD)` of should_skip_harper_analysis.
\* Faulty variant: `>=` for `>`.
SkipExceedsThresholdOrEqual(ratio) ==
    ratio.num * ThresholdDen >= ThresholdNum * ratio.den

SkipExceedsThreshold(ratio) == ratio.num * ThresholdDen > ThresholdNum * ratio.den

\* should_skip_harper_analysis: an Option<bool>.
should_skip_harper_analysis(s, is_enabled, names, sents, det) ==
    LET parsed == [i \in DOMAIN names |-> lang_from_string(names[i])]
        some   == FilterSeq(parsed, [i \in DOMAIN parsed |-> parsed[i] # None])
        langs  == [i \in DOMAIN some |-> some[i][1]]
    IN  IF ~is_enabled \/ names = <<>> THEN None
        ELSE IF langs = <<>> THEN None
        ELSE LET r == calculate_excluded_language_ratio(s, sents, langs, det)
             IN  IF r # None THEN Some(SkipExceedsThreshold(r[1].ratio))
                 ELSE Some(FALSE)

\* The slices detect_language is called on during one filter_errors call.
DetectedSlices(s, sents) ==
    {s} \cup {ByteSlice(s, seg[1], seg[2]) : seg \in Range(sents)}

(***************************************************************************)
(* llm/sentence_detector.rs: complete sentences for the LLM analysis.      *)
(* A SentenceSpan is [text, start, end, word_count].                       *)
(***************************************************************************)
MIN_WORDS_FOR_ANALYSIS == 5

\* '.', '!', '?', the ellipsis and the CJK full stop, '!' and '?'.
is_sentence_terminator(ch) ==
    ch \in {".", "!", "?", "U+2026", "U+3002", "U+FF01", "U+FF1F"}

\* str::split_whitespace().count(): the maximal runs of non-whitespace.
split_whitespace_count(s) ==
    Cardinality({i \in DOMAIN s :
                    /\ ~is_whitespace(s[i])
                    /\ (i = 1 \/ is_whitespace(s[i - 1]))})

\* The `for (i, char) in text.char_indices()` loop from the k-th char on;
\* st is [current_start, current, sentences].
RECURSIVE ExtractScan(_, _, _)
ExtractScan(chars, k, st) ==
    IF k > Len(chars) THEN st.sentences
    ELSE LET i       == chars[k][1]
             char    == chars[k][2]
             current == Append(st.current, char)
             is_terminator == is_sentence_terminator(char)
             is_paragraph_break == char = "\n" /\ str_len(trim(current)) > 1
             trimmed == trim(current)
             word_count == split_whitespace_count(trimmed)
         IN  IF is_terminator \/ is_paragraph_break
             THEN ExtractScan(chars, k + 1,
                      [current_start |-> i + len_utf8(char),
                       current |-> <<>>,
                       sentences |->
                           IF trimmed # <<>> /\ word_count >= MIN_WORDS_FOR_ANALYSIS
                           THEN Append(st.sentences,
                                       [text |-> trimmed, start |-> st.current_start,
                                        end |-> i + len_utf8(char),
                                        word_count |-> word_count])
                           ELSE st.sentences])
             ELSE ExtractScan(chars, k + 1, [st EXCEPT !.current = current])

extract_complete_sentences(s) ==
    ExtractScan(char_indices(s), 1,
                [current_start |-> 0, current |-> <<>>, sentences |-> <<>>])

ends_with_complete_sentence(s) ==
    LET trimmed == trim_end(s)
        found   == extract_complete_sentences(s)
    IN  IF trimmed = <<>> THEN FALSE
        ELSE IF ~is_sentence_terminator(trimmed[Len(trimmed)]) THEN FALSE
        ELSE IF found = <<>> THEN FALSE
        ELSE found[Len(found)].word_count >= MIN_WORDS_FOR_ANALYSIS

(***************************************************************************)
(* slang_dict.rs and the dictionary composition of analyze_text.           *)
(* A word is a sequence of chars; a MutableDictionary is its set of words  *)
(* (the metadata, always DictWordMetadata::default(), is left out); a      *)
(* MergedDictionary is the list of the dictionaries added to it, and knows *)
(* a word when one of them does.                                           *)
(***************************************************************************)
WordlistCategory ==
    {"InternetAbbreviations", "GenZSlang", "ITTerminology",
     "BrandNames", "PersonNames", "LastNames"}

WordlistFiles ==
    {"internet_abbreviations.txt", "genz_slang.txt", "it_terminology.txt",
     "brand_names.txt", "person_names.txt", "last_names.txt"}

\* char::to_lowercase on the letters of the model.
char_to_lowercase(ch) ==
    CASE ch = "B" -> "b"
      [] ch = "T" -> "t"
      [] ch = "U+00C9" -> "U+00E9"
      [] OTHER -> ch

str_to_lowercase(s) == [i \in DOMAIN s |-> char_to_lowercase(s[i])]

\* load_words_lowercase_only over the lines of a file: empty lines and
\* comment lines are skipped, every other line is trimmed and lower-cased.
load_words_lowercase_only(file_lines) ==
    LET kept == FilterSeq(file_lines,
                          [i \in DOMAIN file_lines |->
                              ~(trim(file_lines[i]) = <<>>
                                \/ Head(trim(file_lines[i])) = "#")])
    IN  [i \in DOMAIN kept |-> str_to_lowercase(trim(kept[i]))]

\* Faulty variant: GenZSlang reads the file of InternetAbbreviations.
load_words_wrong_file(category, files) ==
    CASE category = "InternetAbbreviations" ->
             load_words_lowercase_only(files["internet_abbreviations.txt"])
      [] category = "GenZSlang" ->
             load_words_lowercase_only(files["internet_abbreviations.txt"])
      [] category = "ITTerminology" ->
             load_words_lowercase_only(files["it_terminology.txt"])
      [] category = "BrandNames" ->
             load_words_lowercase_only(files["brand_names.txt"])
      [] category = "PersonNames" ->
             load_words_lowercase_only(files["person_names.txt"])
      [] category = "LastNames" ->
             load_words_lowercase_only(files["last_names.txt"])

\* WordlistCategory::load_words; `files` gives the lines of each
\* include_str! file.
load_words(category, files) ==
    CASE category = "InternetAbbreviations" ->
             load_words_lowercase_only(files["internet_abbreviations.txt"])
      [] category = "GenZSlang" ->
             load_words_lowercase_only(files["genz_slang.txt"])
      [] category = "ITTerminology" ->
             load_words_lowercase_only(files["it_terminology.txt"])
      [] category = "BrandNames" ->
             load_words_lowercase_only(files["brand_names.txt"])
      [] category = "PersonNames" ->
             load_words_lowercase_only(files["person_names.txt"])
      [] category = "LastNames" ->
             load_words_lowercase_only(files["last_names.txt"])

\* MutableDictionary::curated(): the words of Harper's curated dictionary.
MutableDictionary_curated == {<<"a">>, <<"t", "a", "b">>}

MutableDictionary_new == {}

extend_words(dict, words) == dict \cup Range(words)

MergedDictionary_new == <<>>

add_dictionary(merged, dict) == Append(merged, dict)

\* Dictionary::contains_word of a MergedDictionary.
contains_word(merged, word) == \E i \in DOMAIN merged : word \in merged[i]

\* One `if enable_x { ... merged.add_dictionary(...) }` block.
AddWordlistIf(merged, enable, category, files) ==
    IF enable
    THEN add_dictionary(merged,
                        extend_words(MutableDictionary_new, load_words(category, files)))
    ELSE merged

\* analyze_text, "Build dictionary based on slang options".
BuildDictionary(t, files) ==
    LET m0 == add_dictionary(MergedDictionary_new, MutableDictionary_curated)
        m1 == AddWordlistIf(m0, t.enable_internet_abbrev, "InternetAbbreviations", files)
        m2 == AddWordlistIf(m1, t.enable_genz_slang, "GenZSlang", files)
        m3 == AddWordlistIf(m2, t.enable_it_terminology, "ITTerminology", files)
        m4 == AddWordlistIf(m3, t.enable_brand_names, "BrandNames", files)
        m5 == AddWordlistIf(m4, t.enable_person_names, "PersonNames", files)
    IN  AddWordlistIf(m5, t.enable_last_names, "LastNames", files)

\* LintGroup::new_curated(dictionary.clone(), dialect): the linter's
\* dictionary is the Arc's clone, the same MergedDictionary.
LinterDictionary(dict) == dict

\* Faulty variant: the document is parsed with the curated dictionary alone.
DocumentDictionaryCurated(dict) ==
    add_dictionary(MergedDictionary_new, MutableDictionary_curated)

\* Document::new_plain_english(text, dictionary.as_ref()).
DocumentDictionary(dict) == dict

(***************************************************************************)
(* analyze_text: the conversion of Harper's lints to GrammarErrors.        *)
(* A lint is [span |-> [start, end] in chars, message, lint_kind (its      *)
(* to_string_key()), suggestions, priority].                               *)
(***************************************************************************)
Lint(from, to, message, lint_kind, suggestions, priority) ==
    [span |-> [start |-> from, end |-> to], message |-> message,
     lint_kind |-> lint_kind, suggestions |-> suggestions, priority |-> priority]

ReplaceWith(chars) == [kind |-> "ReplaceWith", chars |-> chars]
InsertAfter(chars) == [kind |-> "InsertAfter", chars |-> chars]
Remove == [kind |-> "Remove", chars |-> <<>>]

\* char::to_uppercase: the chars of the upper-case mapping (sharp s maps to
\* two chars).
char_to_uppercase(ch) ==
    CASE ch = "a" -> <<"A">>
      [] ch = "b" -> <<"B">>
      [] ch = "t" -> <<"T">>
      [] ch = "U+00E9" -> <<"U+00C9">>
      [] ch = "U+00DF" -> <<"S", "S">>
      [] OTHER -> <<ch>>

is_alphanumeric(ch) ==
    ch \in {"a", "b", "t", "A", "B", "T", "1", "2", "U+00E9", "U+00C9", "U+00DF"}

\* split(sep) followed by filter(|s| !s.is_empty()).
RECURSIVE SplitNonEmpty(_, _, _)
SplitNonEmpty(s, sep, word) ==
    IF s = <<>> THEN (IF word = <<>> THEN <<>> ELSE <<word>>)
    ELSE IF Head(s) = sep
         THEN (IF word = <<>> THEN <<>> ELSE <<word>>) \o SplitNonEmpty(Tail(s), sep, <<>>)
         ELSE SplitNonEmpty(Tail(s), sep, Append(word, Head(s)))

RECURSIVE join(_, _)
join(words, sep) ==
    IF words = <<>> THEN <<>>
    ELSE IF Len(words) = 1 THEN words[1]
    ELSE words[1] \o <<sep>> \o join(Tail(words), sep)

MessageKeyWords == 8

\* message_key: the lower-cased message with every non-alphanumeric char
\* turned to '_', cut into its non-empty words, the first 8 joined by '_'.
message_key(message) ==
    LET lower  == str_to_lowercase(message)
        mapped == [i \in DOMAIN lower |->
                      IF is_alphanumeric(lower[i]) THEN lower[i] ELSE "_"]
        words  == SplitNonEmpty(mapped, "_", <<>>)
        taken  == SubSeq(words, 1, IF Len(words) < MessageKeyWords
                                   THEN Len(words) ELSE MessageKeyWords)
    IN  join(taken, "_")

\* format!("{}::{}", category, message_key); the category, a string of the
\* model, is the first element.
lint_id_of(category, message) == <<category, ":", ":">> \o message_key(message)

\* `chars[span.start..span.end]` is reached when span.start < chars.len()
\* and span.end <= chars.len(); indexing a slice with a range whose start is
\* greater than its end panics.
SlicePanics(s, span) ==
    /\ span.start < Len(s) /\ span.end <= Len(s)
    /\ span.start > span.end

\* The map over the lints panics when the closure does for one of them.
ConvertLintsPanics(s, ls) == \E i \in DOMAIN ls : SlicePanics(s, ls[i].span)

\* original_text: the chars of the span, or "" when the span leaves the text.
original_text(s, span) ==
    IF span.start < Len(s) /\ span.end <= Len(s)
    THEN SubSeq(s, span.start + 1, span.end)
    ELSE <<>>

\* Faulty variant: insert-after rendered as the inserted chars alone.
FlattenSuggestionInsertOnly(suggestion, original) ==
    CASE suggestion.kind = "ReplaceWith" -> suggestion.chars
      [] suggestion.kind = "InsertAfter" -> suggestion.chars
      [] suggestion.kind = "Remove" -> <<>>

\* The String of one Suggestion.
FlattenSuggestion(suggestion, original) ==
    CASE suggestion.kind = "ReplaceWith" -> suggestion.chars
      [] suggestion.kind = "InsertAfter" -> original \o suggestion.chars
      [] suggestion.kind = "Remove" -> <<>>

\* Faulty variant: the char index taken for a byte offset.
byte_offset_unconverted(s, span_start) == span_start

\* byte_offset: the byte length of the chars before char index span.start.
byte_offset(s, span_start) ==
    IF span_start < Len(s) THEN str_len(SubSeq(s, 1, span_start)) ELSE str_len(s)

is_sentence_start(s, span_start) ==
    \/ span_start = 0
    \/ LET prefix == str_get(s, 0, byte_offset(s, span_start))
       IN  /\ prefix # None
           /\ trim_end(prefix[1]) # <<>>
           /\ trim_end(prefix[1])[Len(trim_end(prefix[1]))] \in {".", "!", "?"}

\* The closure over one suggestion: the first char replaced by the first
\* char of its upper-case mapping.
capitalize_first(str) ==
    IF str = <<>> THEN str
    ELSE <<char_to_uppercase(str[1])[1]>> \o Tail(str)

PriorityError == 127
PriorityWarning == 64

severity_of(priority) ==
    IF priority >= PriorityError THEN "Error"
    ELSE IF priority >= PriorityWarning THEN "Warning"
    ELSE "Info"

\* The closure of the map over the lints.
ConvertLint(s, lint, enable_sentence_start_capitalization) ==
    LET original  == original_text(s, lint.span)
        flattened == [i \in DOMAIN lint.suggestions |->
                         FlattenSuggestion(lint.suggestions[i], original)]
        suggestions ==
            IF /\ enable_sentence_start_capitalization
               /\ is_sentence_start(s, lint.span.start)
            THEN [i \in DOMAIN flattened |-> capitalize_first(flattened[i])]
            ELSE flattened
    IN  GrammarError(lint.span.start, lint.span.end, lint.message,
                     severity_of(lint.priority), lint.lint_kind,
                     lint_id_of(lint.lint_kind, lint.message), suggestions)

\* Faulty variant: only the first lint's suggestions are capitalized.
ConvertLintsFirstOnly(s, ls, enable_sentence_start_capitalization) ==
    [i \in DOMAIN ls |->
        ConvertLint(s, ls[i], enable_sentence_start_capitalization /\ i = 1)]

\* lints.into_iter().map(...).collect()
ConvertLints(s, ls, enable_sentence_start_capitalization) ==
    [i \in DOMAIN ls |-> ConvertLint(s, ls[i], enable_sentence_start_capitalization)]

\* The six enable_* arguments that select dictionary layers.
Toggles ==
    [enable_internet_abbrev : BOOLEAN, enable_genz_slang : BOOLEAN,
     enable_it_terminology : BOOLEAN, enable_brand_names : BOOLEAN,
     enable_person_names : BOOLEAN, enable_last_names : BOOLEAN]

AllOff == [enable_internet_abbrev |-> FALSE, enable_genz_slang |-> FALSE,
           enable_it_terminology |-> FALSE, enable_brand_names |-> FALSE,
           enable_person_names |-> FALSE, enable_last_names |-> FALSE]

EmptyFiles == [f \in WordlistFiles |-> <<>>]

NoAnalyze ==
    /\ toggles = AllOff
    /\ wordlists = EmptyFiles
    /\ cap = FALSE
    /\ lints = <<>>
    /\ dictionary = <<>>
    /\ linter_dictionary = <<>>
    /\ document_dictionary = <<>>
    /\ converted = <<>>
    /\ deduped = <<>>

(***************************************************************************)
(* Segmentation specification: every text over Alphabet up to MaxTextLen   *)
(* chars is split.                                                         *)
(***************************************************************************)
Alphabet == {"a", "B", "1", ".", "!", ")", " ", "\n", "\r", "-", "U+00E9", "U+2022"}

NoDetector == complete_sentences = <<>> /\ ends_complete = FALSE

NoFindings == errors = <<>> /\ result = <<>> /\ result2 = <<>>

NoFilter ==
    /\ enabled = FALSE
    /\ excluded_names = <<>>
    /\ detect = <<>>
    /\ path = "none"
    /\ non_english = FALSE
    /\ skip = None

\* The texts of the segmenter's unit tests, every word cut to its first two
\* letters ("First sentence. Second sentence! Third sentence?" is
\* "Fi se. Se se! Th se?"): the chars that decide a boundary are kept.
TextMultipleSentences ==
    <<"F", "i", " ", "s", "e", ".", " ", "S", "e", " ", "s", "e",
      "!", " ", "T", "h", " ", "s", "e", "?">>

TextBulletPoints ==
    <<"-", " ", "F", "i", " ", "i", "t", "\n", "-", " ", "S", "e",
      " ", "i", "t", "\n", "-", " ", "T", "h", " ", "i", "t">>

TextMixedBullets ==
    <<"U+2022", " ", "B", "u", " ", "o", "n", "\n", "*", " ", "B", "u",
      " ", "t", "w", "\n", "-", " ", "B", "u", " ", "t", "h">>

TextNumberedList ==
    <<"1", ".", " ", "F", "i", " ", "i", "t", "\n", "2", ".", " ",
      "S", "e", " ", "i", "t", "\n", "3", ".", " ", "T", "h", " ",
      "i", "t">>

TextLetteredList ==
    <<"a", ".", " ", "F", "i", " ", "i", "t", "\n", "b", ".", " ",
      "S", "e", " ", "i", "t", "\n", "c", ".", " ", "T", "h", " ",
      "i", "t">>

TextParagraphBreaks ==
    <<"F", "i", " ", "p", "a", ".", "\n", "\n", "S", "e", " ", "p",
      "a", ".", "\n", "\n", "T", "h", " ", "p", "a", ".">>

TextParagraphWithoutPunctuation ==
    <<"F", "i", " ", "p", "a", "\n", "\n", "S", "e", " ", "p", "a",
      "\n", "\n", "T", "h", " ", "p", "a">>

TestTexts ==
    {TextMultipleSentences,
     TextBulletPoints,
     TextMixedBullets,
     TextNumberedList,
     TextLetteredList,
     TextParagraphBreaks,
     TextParagraphWithoutPunctuation}

\* Two paragraphs separated by a blank line, as in test_paragraph_breaks,
\* each of at most MaxParagraphLen chars; the second may be indented.
ParagraphAlphabet == {"a", "B", ".", " "}

ParagraphTexts ==
    {first \o <<"\n", "\n">> \o second :
        first \in BoundedSeq(ParagraphAlphabet, MaxParagraphLen),
        second \in BoundedSeq(ParagraphAlphabet, MaxParagraphLen)}

InitSplit ==
    /\ pc = "input"
    /\ text \in BoundedSeq(Alphabet, MaxTextLen) \cup TestTexts \cup ParagraphTexts
    /\ sentences = <<>>
    /\ NoFindings
    /\ NoFilter
    /\ NoAnalyze
    /\ NoDetector

\* sentences = split_into_sentences(text)
SplitIntoSentences ==
    /\ pc = "input"
    /\ sentences' = split_into_sentences(text)
    /\ pc' = "split"
    /\ UNCHANGED <<text, dedupVars, filterVars, analyzeVars, detectorVars>>

NextSplit == SplitIntoSentences

SpecSplit == InitSplit /\ [][NextSplit]_vars

(***************************************************************************)
(* Deduplication specification: every list of up to MaxErrors findings,    *)
(* drawn from three spans (two with the same start, two overlapping) or    *)
(* from one span in every category, is deduplicated, and the output is     *)
(* deduplicated once more.                                                 *)
(***************************************************************************)
DedupSpans == {<<0, 3>>, <<0, 5>>, <<3, 5>>}

DedupCategories == {"Spelling", "SPELLING", "Typo"}

GroupCategories ==
    {"Grammar", "Spelling", "SPELLING", "Punctuation", "Style", "Formatting",
     "Typo", "Miscellaneous"}

DedupFindings ==
    {GrammarError(sp[1], sp[2], "m", sev, cat, "id", <<>>) :
        sp \in DedupSpans, sev \in ErrorSeverity, cat \in DedupCategories}

GroupFindings ==
    {GrammarError(0, 5, "m", sev, cat, "id", <<>>) :
        sev \in ErrorSeverity, cat \in GroupCategories}
    \cup {GrammarError(0, 3, "m", "Error", "Spelling", "id", <<>>)}

InitDedup ==
    /\ pc = "input"
    /\ text = <<>>
    /\ errors \in BoundedSeq(DedupFindings, MaxErrors)
                    \cup BoundedSeq(GroupFindings, MaxErrors)
    /\ result = <<>>
    /\ result2 = <<>>
    /\ sentences = <<>>
    /\ NoFilter
    /\ NoAnalyze
    /\ NoDetector

\* errors = deduplicate_overlapping_errors(errors)
Deduplicate ==
    /\ pc = "input"
    /\ \E it \in Orderings(SpanKeys(errors)) :
          result' = deduplicate_overlapping_errors(errors, it)
    /\ pc' = "deduplicated"
    /\ UNCHANGED <<text, errors, result2, sentences, filterVars, analyzeVars, detectorVars>>

\* A second run on the first run's output (with a HashMap of its own).
DeduplicateAgain ==
    /\ pc = "deduplicated"
    /\ \E it \in Orderings(SpanKeys(result)) :
          result2' = deduplicate_overlapping_errors(result, it)
    /\ pc' = "deduplicated_twice"
    /\ UNCHANGED <<text, errors, result, sentences, filterVars, analyzeVars, detectorVars>>

\* A second run on the same input (with a HashMap of its own).
DeduplicateRerun ==
    /\ pc = "deduplicated"
    /\ \E it \in Orderings(SpanKeys(errors)) :
          result2' = deduplicate_overlapping_errors(errors, it)
    /\ pc' = "deduplicated_rerun"
    /\ UNCHANGED <<text, errors, result, sentences, filterVars, analyzeVars, detectorVars>>

NextDedup == Deduplicate \/ DeduplicateAgain \/ DeduplicateRerun

SpecDedup == InitDedup /\ [][NextDedup]_vars

(***************************************************************************)
(* Language filter specifications.  Texts are built from sentences, one    *)
(* ASCII and one that starts with a two-byte char, each followed by a      *)
(* space.  SpecFilter: texts of up to MaxFilterPieces sentences with every *)
(* list of up to MaxFilterErrors findings.  SpecRatio: texts of up to      *)
(* MaxPieces sentences with at most one finding.  Both: every              *)
(* configuration and every classifier.                                     *)
(***************************************************************************)
Pieces == {<<"B", "!", " ">>, <<"U+00C9", ".", " ">>}

RECURSIVE Concat(_)
Concat(ps) == IF ps = <<>> THEN <<>> ELSE Head(ps) \o Concat(Tail(ps))

TextsOf(n) == {Concat(ps) : ps \in BoundedSeq(Pieces, n)}

FilterSpans == {<<0, 2>>, <<1, 4>>, <<2, 3>>, <<3, 5>>}

FilterFindings ==
    {GrammarError(sp[1], sp[2], "m", "Error", "Spelling", "id", <<>>) : sp \in FilterSpans}

ExcludedNameLists == {<<>>, <<"klingon">>, <<"german">>, <<"German", "klingon", "fra">>}

FilterInput(texts, lists) ==
    /\ pc = "input"
    /\ text \in texts
    /\ errors \in lists
    /\ result = <<>>
    /\ result2 = <<>>
    /\ sentences = <<>>
    /\ enabled \in BOOLEAN
    /\ excluded_names \in ExcludedNameLists
    /\ detect = <<>>
    /\ path = "none"
    /\ non_english = FALSE
    /\ skip = None
    /\ NoAnalyze
    /\ NoDetector

InitFilter ==
    FilterInput(TextsOf(MaxFilterPieces), BoundedSeq(FilterFindings, MaxFilterErrors))

InitRatio ==
    FilterInput(TextsOf(MaxPieces),
                {<<>>, <<GrammarError(0, 2, "m", "Error", "Spelling", "id", <<>>)>>})

\* errors = filter.filter_errors(errors, text) for
\* filter = LanguageFilter::new(enabled, excluded_names)
FilterErrors ==
    /\ pc = "input"
    /\ LET self  == LanguageFilter(enabled, excluded_names)
           sents == split_into_sentences(text)
       IN  IF IsPassThrough(self)
           THEN /\ detect' = <<>>
                /\ result' = filter_errors(self, errors, text, sents, <<>>)
                /\ path' = "pass_through"
           ELSE \E det \in [DetectedSlices(text, sents) -> Lang] :
                   /\ detect' = det
                   /\ result' = filter_errors(self, errors, text, sents, det)
                   /\ path' = FilterPath(self, text, sents, det)
    /\ pc' = "filtered"
    /\ UNCHANGED <<text, errors, result2, sentences, enabled, excluded_names,
                   non_english, skip, analyzeVars, detectorVars>>

\* non_english = filter.is_document_primarily_non_english(text) for the same
\* filter and text; detect_language is a pure function of its slice, so the
\* call sees the answers `detect` that filter_errors saw.
IsDocumentPrimarilyNonEnglish ==
    /\ pc = "filtered"
    /\ non_english' = is_document_primarily_non_english(
                          LanguageFilter(enabled, excluded_names), text,
                          split_into_sentences(text), detect)
    /\ pc' = "asked"
    /\ UNCHANGED <<text, dedupVars, sentences, enabled, excluded_names, detect,
                   path, skip, analyzeVars, detectorVars>>

\* skip = should_skip_harper_analysis(text, enabled, &excluded_names), the
\* early bailout for the same text and configuration; detect_language gives
\* the answers `detect`.
ShouldSkipHarperAnalysis ==
    /\ pc = "filtered"
    /\ skip' = should_skip_harper_analysis(text, enabled, excluded_names,
                                           split_into_sentences(text), detect)
    /\ pc' = "skip_asked"
    /\ UNCHANGED <<text, dedupVars, sentences, enabled, excluded_names, detect,
                   path, non_english, analyzeVars, detectorVars>>

NextFilter == FilterErrors \/ IsDocumentPrimarilyNonEnglish \/ ShouldSkipHarperAnalysis

SpecFilter == InitFilter /\ [][NextFilter]_vars

SpecRatio == InitRatio /\ [][NextFilter]_vars

\* Texts that end in a paragraph break, with findings on the last paragraph
\* and on the break.
BreakTexts ==
    {<<"B", "\n", "\n">>, <<"a", ".", " ", "B", "\n", "\n">>}

BreakSpans == {<<0, 1>>, <<0, 3>>, <<3, 4>>}

BreakFindings ==
    {GrammarError(sp[1], sp[2], "m", "Error", "Spelling", "id", <<>>) : sp \in BreakSpans}

InitFilterBreak ==
    FilterInput(BreakTexts, BoundedSeq(BreakFindings, MaxFilterErrors))

SpecFilterBreak == InitFilterBreak /\ [][NextFilter]_vars

(***************************************************************************)
(* analyze_text as one step: dictionary, linter and document, conversion   *)
(* of the lints, deduplication, language filter.  `lints` is what Harper's *)
(* linter returns for the document; its spans are char ranges with         *)
(* start <= end.                                                           *)
(***************************************************************************)
AnalyzeInput(texts, lint_lists, toggle_set, file_sets, caps, filters) ==
    /\ pc = "input"
    /\ text \in texts
    /\ lints \in lint_lists
    /\ toggles \in toggle_set
    /\ wordlists \in file_sets
    /\ cap \in caps
    /\ \E f \in filters : enabled = f[1] /\ excluded_names = f[2]
    /\ NoFindings
    /\ sentences = <<>>
    /\ detect = <<>>
    /\ path = "none"
    /\ non_english = FALSE
    /\ skip = None
    /\ dictionary = <<>>
    /\ linter_dictionary = <<>>
    /\ document_dictionary = <<>>
    /\ converted = <<>>
    /\ deduped = <<>>
    /\ NoDetector

AnalyzeText ==
    /\ pc = "input"
    /\ LET merged == BuildDictionary(toggles, wordlists)
           errors_converted == ConvertLints(text, lints, cap)
           filter == LanguageFilter(enabled, excluded_names)
           sents  == split_into_sentences(text)
       IN  /\ dictionary' = merged
           /\ linter_dictionary' = LinterDictionary(merged)
           /\ document_dictionary' = DocumentDictionary(merged)
           /\ IF ConvertLintsPanics(text, lints)
              THEN /\ pc' = "panicked"
                   /\ UNCHANGED <<converted, deduped, detect, result, path>>
              ELSE /\ pc' = "analyzed"
                   /\ converted' = errors_converted
                   /\ \E it \in Orderings(SpanKeys(errors_converted)) :
                        LET errors_deduped ==
                                deduplicate_overlapping_errors(errors_converted, it)
                        IN  /\ deduped' = errors_deduped
                            /\ IF IsPassThrough(filter)
                               THEN /\ detect' = <<>>
                                    /\ result' = filter_errors(filter, errors_deduped,
                                                               text, sents, <<>>)
                                    /\ path' = "pass_through"
                               ELSE \E det \in [DetectedSlices(text, sents) -> Lang] :
                                    /\ detect' = det
                                    /\ result' = filter_errors(filter, errors_deduped,
                                                               text, sents, det)
                                    /\ path' = FilterPath(filter, text, sents, det)
    /\ UNCHANGED <<text, errors, result2, sentences, enabled, excluded_names,
                   non_english, skip, toggles, wordlists, cap, lints,
                   detectorVars>>

NextAnalyze == AnalyzeText

\* Capitalization: every text over CapAlphabet up to MaxCapTextLen chars with
\* one lint at any char index up to one past the end.
MaxCapTextLen == 3

CapAlphabet == {"a", ".", "?", ":", " ", "U+00E9"}

CapSuggestions ==
    <<ReplaceWith(<<"b", "a">>), InsertAfter(<<",", "t">>), Remove,
      ReplaceWith(<<"U+00DF", "a">>), ReplaceWith(<<"T", "b">>),
      ReplaceWith(<<"U+00E9">>)>>

CapLints ==
    {<<Lint(st, en, <<"a">>, "Spelling", CapSuggestions, 127)>> :
        st \in 0..(MaxCapTextLen + 1), en \in 0..(MaxCapTextLen + 1)}

InitCap ==
    /\ AnalyzeInput(BoundedSeq(CapAlphabet, MaxCapTextLen), CapLints,
                    {AllOff}, {EmptyFiles}, BOOLEAN, {<<FALSE, <<>>>>})
    /\ lints[1].span.start <= lints[1].span.end
    /\ lints[1].span.end <= lints[1].span.start + 1
    /\ lints[1].span.end <= Len(text) + 1

SpecCap == InitCap /\ [][NextAnalyze]_vars

\* Spans of any shape: start and end anywhere up to one past the end of the
\* text, start greater than end included.
InitAnySpan ==
    AnalyzeInput(BoundedSeq(CapAlphabet, MaxCapTextLen), CapLints,
                 {AllOff}, {EmptyFiles}, BOOLEAN, {<<FALSE, <<>>>>})

SpecAnySpan == InitAnySpan /\ [][NextAnalyze]_vars

\* The whole pipeline: three texts, up to MaxLints lints on two spans (the
\* second one at a sentence start in two of the texts), capitalization and
\* the language filter on and off.
MaxLints == 2

AnalyzeTexts ==
    {<<"a", "b", ".", "a", "b">>, <<"a", "b", ":", "a", "b">>,
     <<"U+00E9", ".", " ", "a", "b">>}

AnalyzeSpans == {<<0, 2>>, <<3, 5>>}

AnalyzeLints ==
    UNION {{Lint(sp[1], sp[2], <<"a">>, "Spelling", <<ReplaceWith(<<"a", "b">>)>>, 127),
            Lint(sp[1], sp[2], <<"b", " ", "A">>, "Style",
                 <<ReplaceWith(<<"t", "b">>), Remove>>, 31),
            Lint(sp[1], sp[2], <<"t">>, "Typo", <<InsertAfter(<<"t">>)>>, 64)} :
           sp \in AnalyzeSpans}

InitAnalyze ==
    AnalyzeInput(AnalyzeTexts, BoundedSeq(AnalyzeLints, MaxLints), {AllOff},
                 {EmptyFiles}, BOOLEAN, {<<FALSE, <<>>>>, <<TRUE, <<"german">>>>})

SpecAnalyze == InitAnalyze /\ [][NextAnalyze]_vars

\* Two sentences, the first with and without a two-byte char, and lints on
\* the first char of either sentence; the language filter is on.
UnitTexts == {<<"U+00C9", ".", " ", "B">>, <<"a", ".", " ", "B">>}

UnitSpans == {<<0, 1>>, <<3, 4>>}

UnitLints ==
    {Lint(sp[1], sp[2], <<"a">>, "Spelling", <<ReplaceWith(<<"a", "b">>)>>, 127) :
        sp \in UnitSpans}

InitUnits ==
    AnalyzeInput(UnitTexts, BoundedSeq(UnitLints, MaxLints), {AllOff},
                 {EmptyFiles}, {FALSE}, {<<TRUE, <<"german">>>>, <<TRUE, <<"fra">>>>})

SpecUnits == InitUnits /\ [][NextAnalyze]_vars

\* Dictionary composition: all 64 settings of the toggles over three
\* contents of the wordlist files (distinct words with comment, blank and
\* padded lines; words shared between files and with the curated dictionary;
\* empty files).
DistinctFiles ==
    [f \in WordlistFiles |->
        CASE f = "internet_abbreviations.txt" ->
                 <<<<"#", " ", "a">>, <<"b", "t", "b">>, <<>>>>
          [] f = "genz_slang.txt" -> <<<<" ", "B", "a", " ">>>>
          [] f = "it_terminology.txt" -> <<<<"a", "b">>>>
          [] f = "brand_names.txt" -> <<<<"T", "t">>, <<" ">>>>
          [] f = "person_names.txt" -> <<<<"b", "a", "b">>>>
          [] f = "last_names.txt" -> <<<<"t", "a", "t">>>>]

SharedFiles ==
    [f \in WordlistFiles |->
        CASE f = "internet_abbreviations.txt" -> <<<<"b", "t", "b">>, <<"t", "a", "b">>>>
          [] f = "genz_slang.txt" -> <<<<"B", "T", "B">>>>
          [] f = "it_terminology.txt" -> <<<<"b", "t", "b">>, <<"a", "b">>>>
          [] f = "brand_names.txt" -> <<>>
          [] f = "person_names.txt" -> <<<<"#", "b">>>>
          [] f = "last_names.txt" -> <<<<"a", "b">>>>]

DictLints ==
    {<<>>, <<Lint(0, 2, <<"a">>, "Spelling", <<ReplaceWith(<<"a", "b">>)>>, 127)>>}

InitDict ==
    AnalyzeInput({<<"b", "a", " ", "t">>}, DictLints, Toggles,
                 {DistinctFiles, SharedFiles, EmptyFiles}, {FALSE},
                 {<<FALSE, <<>>>>})

SpecDict == InitDict /\ [][NextAnalyze]_vars

\* Sentence detection: texts of up to MaxDetectorPieces pieces, each a word
\* followed by a space, a '.', or a '!' and a space, or a newline.
MaxDetectorPieces == 6

DetectorPieces == {<<"a", " ">>, <<"a", ".">>, <<"a", "!", " ">>, <<"\n">>}

DetectorTexts == {Concat(ps) : ps \in BoundedSeq(DetectorPieces, MaxDetectorPieces)}

InitDetector ==
    /\ pc = "input"
    /\ text \in DetectorTexts
    /\ sentences = <<>>
    /\ NoFindings
    /\ NoFilter
    /\ NoAnalyze
    /\ NoDetector

\* ends_complete = ends_with_complete_sentence(text), with the sentences
\* extract_complete_sentences(text) it looks at.
EndsWithCompleteSentence ==
    /\ pc = "input"
    /\ complete_sentences' = extract_complete_sentences(text)
    /\ ends_complete' = ends_with_complete_sentence(text)
    /\ pc' = "detected"
    /\ UNCHANGED <<text, dedupVars, sentences, filterVars, analyzeVars>>

NextDetector == EndsWithCompleteSentence

SpecDetector == InitDetector /\ [][NextDetector]_vars

(***************************************************************************)
(* Properties of deduplicate_overlapping_errors (SpecDedup).               *)
(***************************************************************************)

\* C1: the output of deduplicate_overlapping_errors holds no two findings
\* with the same (start, end).
DedupUniqueSpans ==
    pc = "deduplicated" =>
        \A i, j \in DOMAIN result : Span(result[i]) = Span(result[j]) => i = j

\* C1 witness: two findings of one span went in and one came out.
DedupUniqueSpansWitness ==
    /\ pc = "deduplicated"
    /\ Len(errors) = 2
    /\ Span(errors[1]) = Span(errors[2])
    /\ errors[1] # errors[2]
    /\ Len(result) = 1

\* The claimed order of categories, most specific first; any other category
\* ranks after all of them.
ClaimedCategoryOrder ==
    <<"GRAMMAR", "SPELLING", "PUNCTUATION", "STYLE", "FORMATTING", "TYPO">>

ClaimedCategoryRank(cat) ==
    IF \E k \in DOMAIN ClaimedCategoryOrder : ClaimedCategoryOrder[k] = to_uppercase(cat)
    THEN CHOOSE k \in DOMAIN ClaimedCategoryOrder : ClaimedCategoryOrder[k] = to_uppercase(cat)
    ELSE Len(ClaimedCategoryOrder) + 1

ClaimedSeverityRank(sev) ==
    CHOOSE k \in 1..3 : <<"Error", "Warning", "Info">>[k] = sev

\* C5: of every group of input findings with an identical span exactly one
\* is kept; it has the best category of the group in the order grammar >
\* spelling > punctuation > style > formatting > typo > anything else
\* (compared case-insensitively) and, among those, the highest severity.
DedupKeepsBestOfSpan ==
    pc = "deduplicated" =>
        \A sp \in SpanKeys(errors) :
            LET group == {e \in Range(errors) : Span(e) = sp}
                kept  == {k \in DOMAIN result : Span(result[k]) = sp}
            IN  /\ Cardinality(kept) = 1
                /\ \A k \in kept :
                      /\ result[k] \in group
                      /\ \A e \in group :
                            /\ ClaimedCategoryRank(result[k].category)
                                  <= ClaimedCategoryRank(e.category)
                            /\ ClaimedCategoryRank(result[k].category)
                                  = ClaimedCategoryRank(e.category)
                               => ClaimedSeverityRank(result[k].severity)
                                     <= ClaimedSeverityRank(e.severity)

\* C5 witness: a Typo and a Spelling finding on span (0, 5) leave exactly
\* the Spelling finding.
DedupKeepsBestOfSpanWitness ==
    /\ pc = "deduplicated"
    /\ Len(errors) = 2
    /\ Span(errors[1]) = <<0, 5>> /\ Span(errors[2]) = <<0, 5>>
    /\ errors[1].category = "Typo" /\ errors[1].severity = "Error"
    /\ errors[2].category = "Spelling" /\ errors[2].severity = "Info"
    /\ result = <<errors[2]>>

\* C10: deduplicating the output of a deduplication returns that output, as
\* a list.
DedupIdempotent == pc = "deduplicated_twice" => result2 = result

(***************************************************************************)
(* Properties of split_into_sentences (SpecSplit).                         *)
(***************************************************************************)

\* C4: the segments are in left-to-right order and pairwise non-overlapping:
\* each starts at or after the end of the one before it.
SegmentsOrderedDisjoint ==
    pc = "split" =>
        \A k \in 1..(Len(sentences) - 1) : sentences[k + 1][1] >= sentences[k][2]

(***************************************************************************)
(* Properties of LanguageFilter::filter_errors (SpecFilter, SpecRatio).    *)
(***************************************************************************)
ExcludedSet == Range(LanguageFilter(enabled, excluded_names).excluded_languages)

InNoSegment(e) ==
    \A seg \in Range(split_into_sentences(text)) : ~(e.start >= seg[1] /\ e.end <= seg[2])

\* C2: when the filter is active and the document is not bulk-discarded,
\* every finding whose span no segment contains is kept.
FilterFailOpen ==
    pc = "filtered" /\ path = "per_sentence" =>
        \A k \in DOMAIN errors : InNoSegment(errors[k]) => errors[k] \in Range(result)

\* C2 witness: a finding outside every segment survived a run that dropped
\* another finding.
FilterFailOpenWitness ==
    /\ pc = "filtered"
    /\ path = "per_sentence"
    /\ Len(result) < Len(errors)
    /\ \E k \in DOMAIN errors : InNoSegment(errors[k]) /\ errors[k] \in Range(result)

\* The segments whose own detected language is the document's.
SegmentsInDocLang ==
    LET sents == split_into_sentences(text)
    IN  {k \in DOMAIN sents :
            detect[ByteSlice(text, sents[k][1], sents[k][2])] = detect[text]}

InExcludedSegment(e) ==
    \E seg \in Range(split_into_sentences(text)) :
        /\ e.start >= seg[1] /\ e.end <= seg[2]
        /\ detect[ByteSlice(text, seg[1], seg[2])] \in ExcludedSet

\* C3: with the filter enabled and a recognized excluded language, all
\* findings are discarded at document level exactly when the language of the
\* whole text is excluded and more than 0.6 of the segments (there is at
\* least one) are detected as that language; otherwise nothing is removed
\* in bulk: a finding is only dropped for an excluded segment containing it.
BulkDiscardIffMajority ==
    pc = "filtered" /\ enabled /\ ExcludedSet # {} =>
        LET n == Len(split_into_sentences(text))
            k == Cardinality(SegmentsInDocLang)
        IN  /\ path = "bulk_discard" <=>
                  (detect[text] \in ExcludedSet /\ n > 0 /\ 5 * k > 3 * n)
            /\ path = "bulk_discard" => result = <<>>
            /\ path # "bulk_discard" =>
                  /\ path = "per_sentence"
                  /\ \A e \in Range(errors) :
                        e \notin Range(result) => InExcludedSegment(e)

\* C3 witness: exactly 3 of 5 segments are in the excluded document
\* language and the finding is decided per segment.
BulkDiscardIffMajorityWitness ==
    /\ pc = "filtered"
    /\ path = "per_sentence"
    /\ Len(split_into_sentences(text)) = 5
    /\ detect[text] \in ExcludedSet
    /\ Cardinality(SegmentsInDocLang) = 3
    /\ errors # <<>>

(***************************************************************************)
(* Properties of analyze_text (SpecCap, SpecAnalyze, SpecDict).            *)
(***************************************************************************)

\* The last non-whitespace char before char index idx is '.', '!' or '?',
\* or idx is 0.
ClaimedSentenceStart(s, idx) ==
    \/ idx = 0
    \/ LET before == {i \in 1..Len(s) : i <= idx /\ ~is_whitespace(s[i])}
       IN  /\ before # {}
           /\ s[CHOOSE i \in before : \A j \in before : j <= i] \in {".", "!", "?"}

ClaimedCapitalized(str) ==
    IF str = <<>> THEN str
    ELSE [i \in DOMAIN str |-> IF i = 1 THEN Head(char_to_uppercase(str[1])) ELSE str[i]]

\* The suggestion strings of a lint before any capitalization.
PlainSuggestions(lint) ==
    [j \in DOMAIN lint.suggestions |->
        FlattenSuggestion(lint.suggestions[j], original_text(text, lint.span))]

\* C6: with capitalization enabled, exactly the findings at a sentence start
\* (span.start = 0, or the last non-whitespace char before char index
\* span.start is '.', '!' or '?') get the first char of every suggestion
\* uppercased, the rest of the suggestion unchanged; every other finding,
\* and every finding when the feature is disabled, keeps its suggestions.
CapitalizationExact ==
    pc = "analyzed" =>
        /\ Len(converted) = Len(lints)
        /\ \A i \in DOMAIN lints :
              LET plain == PlainSuggestions(lints[i])
              IN  converted[i].suggestions =
                      IF cap /\ ClaimedSentenceStart(text, lints[i].span.start)
                      THEN [j \in DOMAIN plain |-> ClaimedCapitalized(plain[j])]
                      ELSE plain

\* C6 witness: a finding at char index 2 after a two-byte char and a '.'
\* got its suggestions capitalized.
CapitalizationExactWitness ==
    /\ pc = "analyzed"
    /\ cap
    /\ Len(text) = 3 /\ text[1] = "U+00E9" /\ text[2] = "."
    /\ lints[1].span.start = 2
    /\ converted[1].suggestions[1] = <<"B", "a">>
    /\ converted[1].suggestions # PlainSuggestions(lints[1])

AllCapitalized(e) == \A j \in DOMAIN e.suggestions :
                         e.suggestions[j] = ClaimedCapitalized(e.suggestions[j])

\* C7: capitalization is applied to every finding before deduplication:
\* with the feature enabled, every converted finding at a sentence start is
\* capitalized, deduplication and the filter only select among those
\* findings, and so every finding returned for a sentence-start span
\* carries capitalized suggestions, whichever finding of the span was kept.
CapitalizedBeforeDedup ==
    pc = "analyzed" /\ cap =>
        /\ \A e \in Range(converted) :
              ClaimedSentenceStart(text, e.start) => AllCapitalized(e)
        /\ \A e \in Range(deduped) : e \in Range(converted)
        /\ \A e \in Range(result) :
              /\ e \in Range(deduped)
              /\ ClaimedSentenceStart(text, e.start) => AllCapitalized(e)

\* C7 witness: two lints share a span after a '.', deduplication kept the
\* second one, and its returned suggestions are the capitalized ones.
CapitalizedBeforeDedupWitness ==
    /\ pc = "analyzed"
    /\ cap
    /\ Len(lints) = 2
    /\ lints[1].span = lints[2].span
    /\ lints[1].span.start > 0
    /\ ClaimedSentenceStart(text, lints[1].span.start)
    /\ Len(result) = 1
    /\ result[1].category = lints[2].lint_kind
    /\ lints[1].lint_kind # lints[2].lint_kind
    /\ result[1].suggestions # PlainSuggestions(lints[2])
    /\ AllCapitalized(result[1])

\* The words a dictionary can be asked about: every word of the curated
\* dictionary and of the files, as written and lower-cased, and one more.
WordUniverse ==
    MutableDictionary_curated \cup {<<"b", "b">>}
        \cup UNION {{trim(l), str_to_lowercase(trim(l))} :
                       l \in UNION {Range(wordlists[f]) : f \in WordlistFiles}}

KnownWords(merged) == {w \in WordUniverse : contains_word(merged, w)}

\* The toggle and the file of every optional layer, in the claim's terms.
Layer ==
    {<<"abbrev", toggles.enable_internet_abbrev, "internet_abbreviations.txt">>,
     <<"genz", toggles.enable_genz_slang, "genz_slang.txt">>,
     <<"it", toggles.enable_it_terminology, "it_terminology.txt">>,
     <<"brand", toggles.enable_brand_names, "brand_names.txt">>,
     <<"person", toggles.enable_person_names, "person_names.txt">>,
     <<"last", toggles.enable_last_names, "last_names.txt">>}

LayerWords(file) == Range(load_words_lowercase_only(wordlists[file]))

ClaimedComposition ==
    (MutableDictionary_curated
        \cup UNION {LayerWords(l[3]) : l \in {x \in Layer : x[2]}}) \cap WordUniverse

\* C8: the dictionary the document is parsed with and the dictionary the
\* linter checks with know exactly the same words, those of the base and of
\* every enabled layer, for every combination of the toggles.
SameDictionaryForParsingAndLinting ==
    pc = "analyzed" =>
        /\ document_dictionary = linter_dictionary
        /\ KnownWords(document_dictionary) = ClaimedComposition
        /\ KnownWords(linter_dictionary) = ClaimedComposition
        /\ KnownWords(linter_dictionary) \subseteq KnownWords(document_dictionary)

\* C8 witness: two layers are enabled and the document's dictionary knows a
\* word of a layer that the base does not have.
SameDictionaryForParsingAndLintingWitness ==
    /\ pc = "analyzed"
    /\ toggles.enable_genz_slang /\ toggles.enable_last_names
    /\ ~toggles.enable_internet_abbrev
    /\ contains_word(document_dictionary, <<"b", "a">>)
    /\ contains_word(linter_dictionary, <<"b", "a">>)
    /\ <<"b", "a">> \notin MutableDictionary_curated

EnabledFiles == {l[3] : l \in {x \in Layer : x[2]}}

TogglesWithin(t1, t2) ==
    /\ t1.enable_internet_abbrev => t2.enable_internet_abbrev
    /\ t1.enable_genz_slang => t2.enable_genz_slang
    /\ t1.enable_it_terminology => t2.enable_it_terminology
    /\ t1.enable_brand_names => t2.enable_brand_names
    /\ t1.enable_person_names => t2.enable_person_names
    /\ t1.enable_last_names => t2.enable_last_names

\* The base and then the given files' words, added in the given order.
RECURSIVE AddInOrder(_, _)
AddInOrder(merged, file_order) ==
    IF file_order = <<>> THEN merged
    ELSE AddInOrder(add_dictionary(merged,
                        extend_words(MutableDictionary_new,
                                     load_words_lowercase_only(wordlists[Head(file_order)]))),
                    Tail(file_order))

\* C9: the composed dictionary knows a word exactly when the base or one of
\* the enabled layers has it (a disabled layer contributes nothing);
\* enabling further layers never loses a known word; and adding the enabled
\* layers in any other order gives the same known words.
DictionaryIsUnionOfEnabledLayers ==
    pc = "analyzed" =>
        /\ \A w \in WordUniverse :
              contains_word(dictionary, w) <=>
                  \/ w \in MutableDictionary_curated
                  \/ \E f \in EnabledFiles : w \in LayerWords(f)
        /\ \A t2 \in Toggles :
              TogglesWithin(toggles, t2) =>
                  KnownWords(dictionary) \subseteq KnownWords(BuildDictionary(t2, wordlists))
        /\ \A file_order \in Orderings(EnabledFiles) :
              KnownWords(AddInOrder(add_dictionary(MergedDictionary_new,
                                                   MutableDictionary_curated),
                                    file_order))
                  = KnownWords(dictionary)

\* C9 witness: with the Gen Z and person-name layers enabled and the others
\* disabled, the dictionary knows the base's, the Gen Z file's and the
\* person-name file's words and not the word of the disabled abbreviations.
DictionaryIsUnionOfEnabledLayersWitness ==
    /\ pc = "analyzed"
    /\ wordlists = DistinctFiles
    /\ EnabledFiles = {"genz_slang.txt", "person_names.txt"}
    /\ KnownWords(dictionary) = {<<"a">>, <<"t", "a", "b">>, <<"b", "a">>, <<"b", "a", "b">>}
    /\ ~contains_word(dictionary, <<"b", "t", "b">>)

(***************************************************************************)
(* Further properties of deduplicate_overlapping_errors (SpecDedup).       *)
(***************************************************************************)
Occurrences(xs, e) == Cardinality({i \in DOMAIN xs : xs[i] = e})

\* C11: every finding of the output is one of the input findings with all
\* its fields unchanged, no finding occurs more often than in the input,
\* and the output is never longer than the input.
DedupOnlySelects ==
    pc = "deduplicated" =>
        /\ Len(result) <= Len(errors)
        /\ \A k \in DOMAIN result :
              /\ result[k] \in Range(errors)
              /\ Occurrences(result, result[k]) <= Occurrences(errors, result[k])

\* C11 witness: of an Info Grammar finding and an Error Typo finding on one
\* span the Grammar finding is returned, still with severity Info.
DedupOnlySelectsWitness ==
    /\ pc = "deduplicated"
    /\ Len(errors) = 2
    /\ Span(errors[1]) = Span(errors[2])
    /\ errors[1].category = "Grammar" /\ errors[1].severity = "Info"
    /\ errors[2].category = "Typo" /\ errors[2].severity = "Error"
    /\ result = <<errors[1]>>

(***************************************************************************)
(* Further properties of LanguageFilter (SpecFilter).                      *)
(***************************************************************************)
\* The language names and codes lang_from_string is documented to know.
RecognizedNames ==
    {"spanish", "spa", "french", "fra", "fre", "german", "deu", "ger",
     "italian", "ita", "portuguese", "por", "dutch", "nld", "dut",
     "russian", "rus", "chinese", "mandarin", "cmn", "japanese", "jpn",
     "korean", "kor", "arabic", "ara", "hindi", "hin", "turkish", "tur",
     "swedish", "swe", "vietnamese", "vie"}

NoRecognizedName ==
    \A i \in DOMAIN excluded_names : to_lowercase(excluded_names[i]) \notin RecognizedNames

\* C12: with language filtering disabled, or with no recognized excluded
\* language (no names, or only unrecognized names), filter_errors returns
\* the input findings unchanged and in the same order.
FilterPassThrough ==
    pc = "filtered" /\ (~enabled \/ NoRecognizedName) => result = errors

\* C12 witness: the filter is enabled, its only excluded name is not
\* recognized, and two findings came back as they went in.
FilterPassThroughWitness ==
    /\ pc = "filtered"
    /\ enabled
    /\ excluded_names = <<"klingon">>
    /\ text # <<>>
    /\ Len(errors) = 2
    /\ errors[1] # errors[2]
    /\ result = errors

\* C13: for every configuration, text and finding list the output of
\* filter_errors is an order-preserving subsequence of the input: some
\* selection of input positions, read left to right, gives the output, so
\* the findings are unmodified and never more than before.
FilterIsSubsequence ==
    pc = "filtered" =>
        /\ Len(result) <= Len(errors)
        /\ \E idx \in SUBSET DOMAIN errors :
              result = FilterSeq(errors, [k \in DOMAIN errors |-> k \in idx])

\* C13 witness: segment-level filtering dropped the first of two different
\* findings and kept the second.
FilterIsSubsequenceWitness ==
    /\ pc = "filtered"
    /\ path = "per_sentence"
    /\ Len(errors) = 2
    /\ errors[1] # errors[2]
    /\ result = <<errors[2]>>

SegmentContains(seg, e) == e.start >= seg[1] /\ e.end <= seg[2]

SegmentExcluded(seg) == detect[ByteSlice(text, seg[1], seg[2])] \in ExcludedSet

\* C14: in segment-level filtering a finding whose span is contained in a
\* segment is dropped when that segment's detected language is excluded and
\* kept when it is not.
SegmentDecidesFinding ==
    pc = "filtered" /\ path = "per_sentence" =>
        \A k \in DOMAIN errors :
            \A seg \in Range(split_into_sentences(text)) :
                SegmentContains(seg, errors[k]) =>
                    IF SegmentExcluded(seg)
                    THEN errors[k] \notin Range(result)
                    ELSE errors[k] \in Range(result)

(***************************************************************************)
(* Further properties of split_into_sentences (SpecSplit).                 *)
(***************************************************************************)
IsBlank(s) == \A i \in DOMAIN s : is_whitespace(s[i])

\* C15: no returned segment is empty or consists only of whitespace, and an
\* empty or whitespace-only text yields no segment.
NoBlankSegments ==
    pc = "split" =>
        /\ \A k \in DOMAIN sentences :
              /\ sentences[k][1] < sentences[k][2]
              /\ ~IsBlank(ByteSlice(text, sentences[k][1], sentences[k][2]))
        /\ IsBlank(text) => sentences = <<>>

\* The byte offset of the i-th char of s.
OffsetOfChar(s, i) == str_len(SubSeq(s, 1, i - 1))

\* No sentence punctuation, line break or bullet char occurs in s.
HasNoBoundary(s) ==
    \A i \in DOMAIN s :
        /\ s[i] \notin {".", "!", "?", "\n", "\r"}
        /\ ~is_bullet_char(s[i])

\* C16: every non-whitespace char of the text lies inside some returned
\* segment, and a text with non-whitespace content and no boundary yields
\* the single segment (0, text length).
SegmentsCoverContent ==
    pc = "split" =>
        /\ \A i \in DOMAIN text :
              ~is_whitespace(text[i]) =>
                  \E k \in DOMAIN sentences :
                      /\ sentences[k][1] <= OffsetOfChar(text, i)
                      /\ OffsetOfChar(text, i) < sentences[k][2]
        /\ (~IsBlank(text) /\ HasNoBoundary(text)) =>
              sentences = <<<<0, str_len(text)>>>>

\* C16 witness: a text of two sentences around a two-byte char is covered by
\* two segments that leave out only the space between them.
SegmentsCoverContentWitness ==
    /\ pc = "split"
    /\ text = <<"U+00E9", ".", " ", "B">>
    /\ sentences = <<<<0, 3>>, <<4, 5>>>>

(***************************************************************************)
(* is_document_primarily_non_english against filter_errors (SpecRatio).    *)
(***************************************************************************)
\* C17: is_document_primarily_non_english(text) is false whenever
\* filter_errors with the same configuration and text did not bulk-discard;
\* in particular it is false for an empty text, a disabled filter, an empty
\* excluded set and a document whose detected language is not excluded.
NonEnglishOnlyOnBulkDiscard ==
    pc = "asked" =>
        /\ path # "bulk_discard" => ~non_english
        /\ text = <<>> => ~non_english
        /\ ~enabled => ~non_english
        /\ ExcludedSet = {} => ~non_english
        /\ (enabled /\ ExcludedSet # {} /\ detect[text] \notin ExcludedSet) => ~non_english

\* Three of five segments are in the excluded document language: no bulk
\* discard, and the answer is false.
NonEnglishOnlyOnBulkDiscardWitness ==
    /\ pc = "asked"
    /\ enabled
    /\ detect # <<>>
    /\ detect[text] \in ExcludedSet
    /\ Len(split_into_sentences(text)) = 5
    /\ Cardinality({k \in 1..5 :
           detect[ByteSlice(text, split_into_sentences(text)[k][1],
                            split_into_sentences(text)[k][2])] = detect[text]}) = 3
    /\ path = "per_sentence"
    /\ ~non_english


(***************************************************************************)
(* Order of the findings analyze_text returns (SpecAnalyze).               *)
(***************************************************************************)
AscendingStart(xs) == \A k \in 1..(Len(xs) - 1) : xs[k].start <= xs[k + 1].start

\* C18: the output of deduplicate_overlapping_errors is sorted by ascending
\* start, and so are the findings analyze_text returns after the language
\* filter.
FindingsAscendingStart ==
    pc = "analyzed" => AscendingStart(deduped) /\ AscendingStart(result)

\* The linter reported the later span first; both findings are returned,
\* the earlier span first.
FindingsAscendingStartWitness ==
    /\ pc = "analyzed"
    /\ Len(converted) = 2
    /\ converted[1].start > converted[2].start
    /\ Len(result) = 2
    /\ result[1].start < result[2].start


(***************************************************************************)
(* Two runs of deduplicate_overlapping_errors on one input (SpecDedup).    *)
(***************************************************************************)
\* C19: two runs of deduplicate_overlapping_errors on the same input list
\* return the same findings in the same order.
DedupDeterministic ==
    pc = "deduplicated_rerun" => result2 = result



(***************************************************************************)
(* Spans kept by deduplicate_overlapping_errors (SpecDedup).               *)
(***************************************************************************)
SpansOf(xs) == {<<xs[k].start, xs[k].end>> : k \in DOMAIN xs}

Overlapping(a, b) == a.start < b.end /\ b.start < a.end

MalformedSpan(s, span) ==
    span.start > Len(s) \/ span.end > Len(s) \/ span.start > span.end

\* C21: for any span the linter reports, a malformed one included (start or
\* end beyond the end of the text, or start greater than end), analyze_text
\* does not fail: the original text of a malformed span is the empty string
\* (an insert-after suggestion is the inserted text alone, up to the
\* capitalization of its first char) and the finding is returned.
MalformedSpanDoesNotFail ==
    pc # "input" =>
        /\ pc = "analyzed"
        /\ \A i \in DOMAIN lints :
              MalformedSpan(text, lints[i].span) =>
                 \E r \in Range(result) :
                    /\ r.start = lints[i].span.start
                    /\ r.end = lints[i].span.end
                    /\ r.suggestions[2] \in {<<",", "t">>, capitalize_first(<<",", "t">>)}


(***************************************************************************)
(* Indexing units of findings and segments (SpecUnits).                    *)
(***************************************************************************)
\* The chars of finding e are chars of the segment seg: the segment's byte
\* range taken as the char range it covers in the text.
SegmentHoldsChars(seg, e) ==
    /\ CharsBefore(text, seg[1]) <= e.start
    /\ e.end <= CharsBefore(text, seg[2])

\* C22: findings and segments are compared in one indexing unit: in
\* segment-level filtering a finding is attributed to the segment that holds
\* its characters in the text, also after multi-byte characters, and so is
\* dropped exactly when that segment's detected language is excluded.
FindingInItsSegment ==
    pc = "analyzed" /\ path = "per_sentence" =>
        \A e \in Range(deduped) :
            \A seg \in Range(split_into_sentences(text)) :
                SegmentHoldsChars(seg, e) =>
                    (e \in Range(result) <=> ~SegmentExcluded(seg))


(***************************************************************************)
(* Boundaries of split_into_sentences, rule by rule (SpecSplit).           *)
(* Positions p are 1-based char positions of `text`.                       *)
(***************************************************************************)
\* The char at p begins a line: offset 0, or after a newline or carriage
\* return and optional spaces and tabs.
BeginsLine(p) ==
    \/ p = 1
    \/ \E q \in 1..(p - 1) :
          /\ text[q] \in {"\n", "\r"}
          /\ \A r \in (q + 1)..(p - 1) : text[r] \in {" ", "\t"}

\* The '.' at p follows a single digit or letter that begins a line.
MarkerDot(p) ==
    /\ text[p] = "."
    /\ p > 1
    /\ text[p - 1] \in AsciiDigits \cup AsciiLower \cup AsciiUpper
    /\ BeginsLine(p - 1)

\* The char at q is the first non-whitespace char after p, at least one
\* whitespace char lies between them, and it is an uppercase letter.
UppercaseAfterWhitespace(p, q) ==
    /\ q > p + 1
    /\ q <= Len(text)
    /\ \A r \in (p + 1)..(q - 1) : is_whitespace(text[r])
    /\ is_uppercase(text[q])

SlicesOf(s, sents) == [k \in DOMAIN sents |-> ByteSlice(s, sents[k][1], sents[k][2])]

\* C23: a '.', '!' or '?' that is not the dot of a line-start list marker
\* and is followed by the end of the text, or by whitespace and then an
\* uppercase letter, ends a segment immediately after itself, and the next
\* segment starts at the first non-whitespace char after it; the text of
\* test_split_multiple_sentences yields exactly its three sentences.
TerminatorEndsSegment ==
    pc = "split" =>
        /\ \A p \in DOMAIN text :
              (text[p] \in {".", "!", "?"} /\ ~MarkerDot(p)) =>
                 /\ p = Len(text) =>
                       \E k \in DOMAIN sentences : sentences[k][2] = str_len(text)
                 /\ \A q \in DOMAIN text :
                       UppercaseAfterWhitespace(p, q) =>
                          \E k \in 1..(Len(sentences) - 1) :
                             /\ sentences[k][2] = OffsetOfChar(text, p + 1)
                             /\ sentences[k + 1][1] = OffsetOfChar(text, q)
        /\ text = TextMultipleSentences =>
              SlicesOf(text, sentences) =
                 <<SubSeq(text, 1, 6), SubSeq(text, 8, 13), SubSeq(text, 15, 20)>>


\* C24: a '.', '!' or '?' (not the dot of a line-start list marker) that is
\* directly followed by a newline closes the current segment, whatever char
\* begins the following line.
NewlineConfirmsBoundary ==
    pc = "split" =>
        \A p \in 1..(Len(text) - 1) :
            (text[p] \in {".", "!", "?"} /\ ~MarkerDot(p) /\ text[p + 1] = "\n") =>
                \E k \in DOMAIN sentences : sentences[k][2] = OffsetOfChar(text, p + 1)


\* Some segment ends immediately after the char at p.
SegmentEndsAfter(p) ==
    \E k \in DOMAIN sentences : sentences[k][2] = OffsetOfChar(text, p + 1)

\* A paragraph break begins at p: a newline followed by a newline or a
\* carriage return.
ParagraphBreakAt(p) ==
    /\ p + 1 <= Len(text)
    /\ text[p] = "\n"
    /\ text[p + 1] \in {"\n", "\r"}

\* C25 as stated: no segment ends at a '.' that follows a single digit or
\* letter standing at the start of a line.
MarkerDotEndsNoSegment ==
    pc = "split" =>
        \A p \in DOMAIN text : MarkerDot(p) => ~SegmentEndsAfter(p)

\* C25 as the code has it: the '.' of a line-start list marker is never
\* treated as terminal punctuation; a segment ends at it only where another
\* rule ends one, at the end of the text or before a paragraph break.
MarkerDotIsNotTerminal ==
    pc = "split" =>
        \A p \in DOMAIN text :
            (MarkerDot(p) /\ p < Len(text) /\ ~ParagraphBreakAt(p + 1)) =>
                ~SegmentEndsAfter(p)

\* "1. B": whitespace and an uppercase letter follow the dot, and the text
\* stays one segment.
MarkerDotIsNotTerminalWitness ==
    /\ pc = "split"
    /\ text = <<"1", ".", " ", "B">>
    /\ sentences = <<<<0, 4>>>>


\* Hyphen, asterisk, the Unicode bullet and triangle glyphs and the dashes.
BulletGlyphs ==
    {"-", "*", "U+2022", "U+25E6", "U+25AA", "U+25B8", "U+25BA", "U+2023",
     "U+2043", "U+2013", "U+2014"}

\* A list marker stands at p: a bullet glyph followed by whitespace, or a
\* digit or letter followed by '.' or ')' and whitespace, at a line start.
MarkerAt(p) ==
    /\ BeginsLine(p)
    /\ \/ /\ text[p] \in BulletGlyphs
          /\ p + 1 <= Len(text)
          /\ is_whitespace(text[p + 1])
       \/ /\ text[p] \in AsciiDigits \cup AsciiLower \cup AsciiUpper
          /\ p + 2 <= Len(text)
          /\ text[p + 1] \in {".", ")"}
          /\ is_whitespace(text[p + 2])

\* The text is made of marker-prefixed lines and has no other boundary:
\* every line begins with a marker, and there is no carriage return, no
\* empty line, no '!' or '?' and no '.' but the dots of the markers.
OnlyMarkerLines ==
    \A p \in DOMAIN text :
        /\ (p = 1 \/ text[p - 1] = "\n") => MarkerAt(p)
        /\ text[p] \notin {"\r", "!", "?"}
        /\ text[p] = "." => MarkerDot(p)

\* C26: a list marker at a line start closes the previous segment and opens
\* a new segment exactly at the marker: a segment starts at the marker and
\* none runs across it; a text made of N marker-prefixed lines without
\* other boundaries yields exactly N segments, each beginning at its marker.
MarkerOpensSegment ==
    pc = "split" =>
        /\ \A p \in DOMAIN text :
              MarkerAt(p) =>
                 /\ \E k \in DOMAIN sentences : sentences[k][1] = OffsetOfChar(text, p)
                 /\ \A k \in DOMAIN sentences :
                       ~(/\ sentences[k][1] < OffsetOfChar(text, p)
                         /\ OffsetOfChar(text, p) < sentences[k][2])
        /\ OnlyMarkerLines =>
              /\ Len(sentences) = Cardinality({p \in DOMAIN text : MarkerAt(p)})
              /\ \A k \in DOMAIN sentences :
                    \E p \in DOMAIN text :
                       MarkerAt(p) /\ sentences[k][1] = OffsetOfChar(text, p)

\* The three bullet styles of test_split_mixed_bullets give three segments,
\* each beginning at its bullet.
MarkerOpensSegmentWitness ==
    /\ pc = "split"
    /\ text = TextMixedBullets
    /\ OnlyMarkerLines
    /\ sentences = <<<<0, 10>>, <<10, 18>>, <<18, 25>>>>


\* C27: two or more consecutive newline or carriage-return chars form a
\* paragraph break that no returned segment contains: no segment holds two
\* consecutive break chars, wherever the break stands and however it is
\* written.
NoSegmentSpansParagraphBreak ==
    pc = "split" =>
        \A p \in 1..(Len(text) - 1) :
            (text[p] \in {"\n", "\r"} /\ text[p + 1] \in {"\n", "\r"}) =>
                \A k \in DOMAIN sentences :
                    ~(/\ sentences[k][1] <= OffsetOfChar(text, p)
                      /\ OffsetOfChar(text, p + 2) <= sentences[k][2])


(***************************************************************************)
(* Suggestions of the returned findings (SpecAnalyze).                     *)
(***************************************************************************)
\* The chars of the text that a span inside the text covers.
SpanText(s, span) ==
    IF span.start <= span.end /\ span.end <= Len(s)
    THEN [i \in 1..(span.end - span.start) |-> s[span.start + i]]
    ELSE <<>>

\* One replacement string per suggestion: the replacement text, the span's
\* text followed by the inserted text, or the empty string.
ClaimedReplacement(suggestion, s, span) ==
    IF suggestion.kind = "ReplaceWith" THEN suggestion.chars
    ELSE IF suggestion.kind = "InsertAfter" THEN SpanText(s, span) \o suggestion.chars
    ELSE <<>>

\* C28: every suggestion of a lint is flattened to one replacement string
\* before capitalization, deduplication and filtering (replace-with: its
\* text; insert-after: the span's original text followed by the inserted
\* text; delete: the empty string), and the suggestion list of a finding
\* keeps the linter's order and length.
SuggestionsFlattened ==
    pc = "analyzed" =>
        /\ Len(converted) = Len(lints)
        /\ \A i \in DOMAIN lints :
              /\ Len(converted[i].suggestions) = Len(lints[i].suggestions)
              /\ \A j \in DOMAIN lints[i].suggestions :
                    LET flat == ClaimedReplacement(lints[i].suggestions[j], text,
                                                   lints[i].span)
                    IN  converted[i].suggestions[j] =
                            IF cap /\ ClaimedSentenceStart(text, lints[i].span.start)
                            THEN ClaimedCapitalized(flat)
                            ELSE flat
        /\ \A r \in Range(result) : r \in Range(converted)

\* An insert-after lint on the chars "ab" of 3..5 is returned with the one
\* suggestion "abt", next to a lint whose replace-with and delete suggestions
\* are "tb" and "" in that order.
SuggestionsFlattenedWitness ==
    /\ pc = "analyzed"
    /\ ~cap
    /\ Len(result) = 2
    /\ result[1].suggestions = <<<<"t", "b">>, <<>>>>
    /\ result[2].start = 3
    /\ result[2].suggestions = <<<<"a", "b", "t">>>>


(***************************************************************************)
(* should_skip_harper_analysis (SpecRatio).                                *)
(***************************************************************************)
\* The segments whose detected language is in langset.
SegmentsDetectedIn(langset) ==
    {k \in DOMAIN split_into_sentences(text) :
        detect[ByteSlice(text, split_into_sentences(text)[k][1],
                         split_into_sentences(text)[k][2])] \in langset}

MoreThanSixtyPercent(count, total) == 5 * count > 3 * total

LastSentenceOf(s) ==
    LET earlier == {q \in 1..(Len(s) - 1) : is_sentence_terminator(s[q])}
        from    == IF earlier = {} THEN 1
                   ELSE 1 + (CHOOSE q \in earlier : \A r \in earlier : r <= q)
    IN  SubSeq(s, from, Len(s))

\* C30: ends_with_complete_sentence(text) is true only if the text ends,
\* trailing whitespace ignored, with a sentence terminator and the last
\* sentence of the text, the one that terminator closes, has at least
\* MIN_WORDS_FOR_ANALYSIS words.
EndsCompleteOnlyIfLastSentenceLong ==
    pc = "detected" /\ ends_complete =>
        /\ trim_end(text) # <<>>
        /\ is_sentence_terminator(trim_end(text)[Len(trim_end(text))])
        /\ split_whitespace_count(LastSentenceOf(trim_end(text))) >= 5

=============================================================================
